---------------------------- MODULE Spec2Model ----------------------------
(***************************************************************************)
(* Model of the EURP mint/burn Telegram watcher (src/index.js).            *)
(*                                                                         *)
(* The source holds the two variants of the program one after the other:   *)
(* the subscription variant (lines 1-157: provider.on(filter, ...)) and    *)
(* the block-poll variant (lines 158-329: provider.on("block", ...)).      *)
(* Both share getTokenMeta and handleLog verbatim.  A run of the program   *)
(* is a run of one variant; the variable mode says which.                  *)
(*                                                                         *)
(* JavaScript is single threaded: the code between two awaits runs         *)
(* atomically, and every await of an external call (getLogs,               *)
(* getBlockNumber, symbol(), decimals(), sendMessage) is a suspension      *)
(* point at which other handlers may run.  One action of the model is one  *)
(* such atomic stretch: it starts at an event or at the resolution of an   *)
(* awaited external call and runs to the next external call or to the end  *)
(* of the handler.  An await of an already settled promise (handleLog      *)
(* returning early, a tokenCache hit) only yields to microtasks of the     *)
(* same stretch and is not a suspension point of the model.                *)
(***************************************************************************)
EXTENDS Integers, Sequences, FiniteSets, TLC

(* ----------------------------- bounds --------------------------------- *)
\* highest block height the chain reaches
MaxBlock == 3
\* handlers (passes or log callbacks) that may be in flight at once
MaxProcs == 2
\* largest value of CONFIRMATIONS explored
MaxConf == 2
\* external calls that may fail in one run
MaxFaults == 1
\* number of distinct logs fed one after the other in the deduplicator runs
MaxTx == 1002
\* times one log is handed to handleLog in the deduplicator runs
MaxHandled == 2

(* ------------------------- program constants -------------------------- *)
\* if (lastSeenTx.size > 1000)
DedupCeiling == 1000
\* for (let i = 0; i < 200; i++) lastSeenTx.delete(...)
EvictCount == 200
\* meta = { symbol: "TOKEN", decimals: 18 }
PlaceholderDecimals == 18

\* const ZERO = "0x0000...0000"; addresses are modelled as naturals, 0 being
\* the zero address (toLowerCase() maps the zero address to itself and no
\* other address to it).
ZERO == 0

VARIABLES
    mode,               \* "poll" | "subscribe": which variant is running
    minConf,            \* Number(CONFIRMATIONS)
    faults,             \* environment: external calls that may still fail
    head,               \* chain head height (what getBlockNumber returns)
    lastProcessedBlock, \* the cursor of the block-poll variant
    tokenCache,         \* Map address -> meta
    lastSeenTx,         \* Set of transaction hashes, in insertion order
    proc,               \* the handlers in flight, each at its await
    delivered,          \* log id -> times the log was handed to a handler
    sent,               \* history: log id -> notifications dispatched for it
    nSent,              \* history: number of notifications dispatched
    deferred,           \* history: logs a gate found not yet eligible
    lastPass,           \* history: the block handler run the latest step
                        \* ended, if it ended one
    started,            \* history: a new-block notification has arrived
    sendFailed          \* history: logs whose dispatch was rejected

vars == <<mode, minConf, faults, head, lastProcessedBlock, tokenCache,
          lastSeenTx, proc, delivered, sent, nSent, deferred, lastPass,
          started, sendFailed>>

Procs == 1..MaxProcs

(* ------------------------------ the chain ----------------------------- *)
\* A log entry: id is its position on the chain (logIndex), wellFormed says
\* whether its topics parse as Transfer(address,address,uint256).
MkLog(id, blk, tx, from, to, ok, addr) ==
    [id |-> id, blockNumber |-> blk, transactionHash |-> tx, from |-> from,
     to |-> to, wellFormed |-> ok, address |-> addr]

\* The logs the watched chain holds, in chain order:
\*   block 1: two mints of one transaction
\*   block 2: a burn, and a log whose topics do not parse
\*   block 3: an ordinary transfer, and a transfer from zero to zero
ChainLogs ==
    << MkLog(1, 1, 1, ZERO, 1, TRUE, 1),
       MkLog(2, 1, 1, ZERO, 2, TRUE, 1),
       MkLog(3, 2, 2, 1, ZERO, TRUE, 1),
       MkLog(4, 2, 3, ZERO, 1, FALSE, 1),
       MkLog(5, 3, 4, 1, 2, TRUE, 1),
       MkLog(6, 3, 5, ZERO, ZERO, TRUE, 1) >>

ChainIds == 1..Len(ChainLogs)

\* The n-th log of the deduplicator runs: a mint in a transaction of its own.
BulkLog(n) == MkLog(n, 1, n, ZERO, 1, TRUE, 1)

NoLog == MkLog(0, 0, 0, ZERO, ZERO, FALSE, 0)

\* what symbol() and decimals() return for a token contract
RealMeta(addr) == [symbol |-> "EURP", decimals |-> 6]
NoMeta == [symbol |-> "", decimals |-> 0]
\* mutant of PlaceholderMeta: the fallback is an empty record
PlaceholderMeta_Empty == NoMeta

PlaceholderMeta == [symbol |-> "TOKEN", decimals |-> PlaceholderDecimals]

RECURSIVE SelectRange(_, _, _, _)
SelectRange(logs, i, fromBlock, toBlock) ==
    IF i > Len(logs) THEN <<>>
    ELSE IF logs[i].blockNumber >= fromBlock /\ logs[i].blockNumber <= toBlock
         THEN <<logs[i]>> \o SelectRange(logs, i + 1, fromBlock, toBlock)
         ELSE SelectRange(logs, i + 1, fromBlock, toBlock)

\* provider.getLogs({address, topics, fromBlock, toBlock})
GetLogs(fromBlock, toBlock) == SelectRange(ChainLogs, 1, fromBlock, toBlock)

(* ------------------------------ handleLog ----------------------------- *)
Has(seen, tx) == \E k \in 1..Len(seen) : seen[k] = tx

\* mutant of Classify: the filter of ordinary transfers is missing
Classify_NoFilter(from, to) ==
    IF from = ZERO THEN "Mint" ELSE "Burn"

\* from.toLowerCase() !== ZERO && to.toLowerCase() !== ZERO -> return;
\* type = from.toLowerCase() === ZERO ? Mint : Burn
Classify(from, to) ==
    IF from # ZERO /\ to # ZERO THEN "Ignored"
    ELSE IF from = ZERO THEN "Mint" ELSE "Burn"

\* for (let i = 0; i < n; i++) set.delete(it.next().value): the iterator
\* walks the set in insertion order, so each round deletes the oldest entry
\* (delete(undefined) once the iterator is exhausted deletes nothing).
\* n rounds are the first n \div 2 rounds followed by the others.
RECURSIVE DeleteOldest(_, _)
DeleteOldest(seen, n) ==
    IF n = 0 \/ seen = <<>> THEN seen
    ELSE IF n = 1 THEN Tail(seen)
    ELSE DeleteOldest(DeleteOldest(seen, n \div 2), n - (n \div 2))

\* mutant of DedupRecord: the eviction loop stops one round early
DedupRecord_EvictsOneLess(seen, tx) ==
    LET added == IF Has(seen, tx) THEN seen ELSE Append(seen, tx)
    IN  IF Len(added) > DedupCeiling
        THEN DeleteOldest(added, EvictCount - 1)
        ELSE added

\* lastSeenTx.add(tx); if (lastSeenTx.size > 1000) { delete the first 200 }
DedupRecord(seen, tx) ==
    LET added == IF Has(seen, tx) THEN seen ELSE Append(seen, tx)
    IN  IF Len(added) > DedupCeiling THEN DeleteOldest(added, EvictCount)
        ELSE added

\* getTokenMeta up to its first await: a cache hit returns the cached meta.
CacheHit(cache, addr) == addr \in DOMAIN cache

\* mutant of HandleLogEntry: the lastSeenTx.has check is missing
HandleLogEntry_NoSeenCheck(st, log, seen, cache) ==
    LET base == [st EXCEPT !.log = log, !.meta = NoMeta] IN
    IF ~log.wellFormed THEN [base EXCEPT !.pc = "return"]
    ELSE IF Classify(log.from, log.to) = "Ignored"
         THEN [base EXCEPT !.pc = "return"]
    ELSE IF CacheHit(cache, log.address)
         THEN [base EXCEPT !.pc = "send", !.meta = cache[log.address]]
    ELSE [base EXCEPT !.pc = "symbol"]

\* mutant of HandleLogEntry: a log that does not parse is not rejected
HandleLogEntry_NoShapeCheck(st, log, seen, cache) ==
    LET base == [st EXCEPT !.log = log, !.meta = NoMeta] IN
    IF Has(seen, log.transactionHash) THEN [base EXCEPT !.pc = "return"]
    ELSE IF Classify(log.from, log.to) = "Ignored"
         THEN [base EXCEPT !.pc = "return"]
    ELSE IF CacheHit(cache, log.address)
         THEN [base EXCEPT !.pc = "send", !.meta = cache[log.address]]
    ELSE [base EXCEPT !.pc = "symbol"]

\* mutant of HandleLogEntry: an ordinary transfer is not dropped
HandleLogEntry_NoFilterReturn(st, log, seen, cache) ==
    LET base == [st EXCEPT !.log = log, !.meta = NoMeta] IN
    IF Has(seen, log.transactionHash) THEN [base EXCEPT !.pc = "return"]
    ELSE IF ~log.wellFormed THEN [base EXCEPT !.pc = "return"]
    ELSE IF CacheHit(cache, log.address)
         THEN [base EXCEPT !.pc = "send", !.meta = cache[log.address]]
    ELSE [base EXCEPT !.pc = "symbol"]

\* handleLog from its call to its first external call: where it stops.
\*   "return" : it returned (seen tx, parse error caught, ordinary transfer)
\*   "symbol" : awaiting contract.symbol() inside getTokenMeta
\*   "send"   : awaiting bot.sendMessage (tokenCache hit)
HandleLogEntry(st, log, seen, cache) ==
    LET base == [st EXCEPT !.log = log, !.meta = NoMeta] IN
    IF Has(seen, log.transactionHash) THEN [base EXCEPT !.pc = "return"]
    ELSE IF ~log.wellFormed THEN [base EXCEPT !.pc = "return"]
    ELSE IF Classify(log.from, log.to) = "Ignored"
         THEN [base EXCEPT !.pc = "return"]
    ELSE IF CacheHit(cache, log.address)
         THEN [base EXCEPT !.pc = "send", !.meta = cache[log.address]]
    ELSE [base EXCEPT !.pc = "symbol"]

(* ------------------------------ handlers ------------------------------ *)
Idle ==
    [pc |-> "idle", kind |-> "none", blockNumber |-> 0, fromBlock |-> 0,
     logs |-> <<>>, i |-> 0, log |-> NoLog, meta |-> NoMeta,
     gate |-> "none", skipped |-> {}]

NoPass == [outcome |-> "none", blockNumber |-> 0, fromBlock |-> 0,
           skipped |-> {}]

PassEnd(st, outcome) ==
    [outcome |-> outcome, blockNumber |-> st.blockNumber,
     fromBlock |-> st.fromBlock, skipped |-> st.skipped]

\* the confirmation gate: log.blockNumber + minConf - 1 > latest
NotYetEligible(log, conf, latest) == log.blockNumber + conf - 1 > latest

\* for (const log of logs) { gate; await handleLog(log) } from index i to the
\* next external call, or to the end of the loop ("done").
RECURSIVE LoopFrom(_, _, _, _)
LoopFrom(st, i, seen, cache) ==
    IF i > Len(st.logs) THEN [st EXCEPT !.pc = "done", !.i = i]
    ELSE IF minConf > 1
         THEN [st EXCEPT !.pc = "gate", !.i = i, !.log = st.logs[i],
                         !.meta = NoMeta, !.gate = "none"]
    ELSE LET e == HandleLogEntry([st EXCEPT !.i = i, !.gate = "none"],
                                 st.logs[i], seen, cache)
         IN  IF e.pc = "return" THEN LoopFrom(st, i + 1, seen, cache) ELSE e

\* mutant of CursorAfterPass: the cursor stops below the first log of the
\* batch
CursorAfterPass_BelowBatch(st) ==
    IF st.logs = <<>> THEN st.blockNumber
    ELSE st.logs[1].blockNumber - 1

\* mutant of CursorAfterPass: the cursor is left where the pass found it
CursorAfterPass_Stale(st) == st.fromBlock - 1

\* the cursor write that ends a pass: lastProcessedBlock = blockNumber
CursorAfterPass(st) == st.blockNumber

\* Where handler p stands once its atomic stretch, which left it as st, ends.
Settle(p, st) ==
    IF st.pc = "done"
    THEN /\ proc' = [proc EXCEPT ![p] = Idle]
         /\ lastProcessedBlock' = CursorAfterPass(st)
         /\ lastPass' = PassEnd(st, "completed")
    ELSE IF st.pc = "return"
    THEN /\ proc' = [proc EXCEPT ![p] = Idle]
         /\ lastPass' = NoPass
         /\ UNCHANGED lastProcessedBlock
    ELSE /\ proc' = [proc EXCEPT ![p] = st]
         /\ lastPass' = NoPass
         /\ UNCHANGED lastProcessedBlock

\* handleLog has returned to its caller with the caches as given.
AfterHandleLog(p, seen, cache) ==
    IF proc[p].kind = "block"
    THEN Settle(p, LoopFrom(proc[p], proc[p].i + 1, seen, cache))
    ELSE Settle(p, [proc[p] EXCEPT !.pc = "return"])

\* catch (err) { console.error("Error while polling new blocks:", err) }
AbortPass(p) ==
    /\ proc' = [proc EXCEPT ![p] = Idle]
    /\ lastPass' = PassEnd(proc[p], "aborted")
    /\ UNCHANGED lastProcessedBlock

FreeSlot(p) ==
    /\ proc[p].pc = "idle"
    /\ \A q \in Procs : q < p => proc[q].pc # "idle"

\* the feed history once log k has been handed to a handler once more
Handed(d, k) ==
    [j \in DOMAIN d \cup {k} |->
        IF j = k THEN (IF k \in DOMAIN d THEN d[k] + 1 ELSE 1) ELSE d[j]]

(* ------------------------------- Init --------------------------------- *)
Init ==
    /\ mode \in {"poll", "subscribe"}
    /\ minConf \in 1..MaxConf
    /\ faults \in 0..MaxFaults
    /\ head = 1
    /\ lastProcessedBlock = 0
    /\ tokenCache = <<>>
    /\ lastSeenTx = <<>>
    /\ proc = [p \in Procs |-> Idle]
    /\ delivered = <<>>
    /\ sent = <<>>
    /\ nSent = 0
    /\ deferred = {}
    /\ lastPass = NoPass
    /\ started = FALSE
    /\ sendFailed = {}

(* ------------------------------ actions ------------------------------- *)
\* the chain grows by one block
MineBlock ==
    /\ head < MaxBlock
    /\ head' = head + 1
    /\ lastPass' = NoPass
    /\ UNCHANGED <<mode, minConf, faults, lastProcessedBlock, tokenCache,
                   lastSeenTx, proc, delivered, sent, nSent, deferred,
                   started, sendFailed>>

\* mutant of CursorAtEntry: the first-run branch is taken on every
\* notification
CursorAtEntry_AlwaysFirstRun(cursor, blockNumber) == blockNumber - 1

\* mutant of CursorAtEntry: the first-run branch is missing
CursorAtEntry_NoFirstRun(cursor, blockNumber) == cursor

\* the first-run branch: if (!lastProcessedBlock) lastProcessedBlock = B - 1
CursorAtEntry(cursor, blockNumber) ==
    IF cursor = 0 THEN blockNumber - 1 ELSE cursor

\* provider.on("block", blockNumber) up to await provider.getLogs(filter).
\* The provider reports the height of the chain head; it may report the
\* same height again, and heights mined between two reports are not
\* reported on their own.
BlockEvent(blockNumber) ==
    /\ mode = "poll"
    /\ blockNumber = head
    /\ \E p \in Procs :
        /\ FreeSlot(p)
        /\ LET cur == CursorAtEntry(lastProcessedBlock, blockNumber)
               fromBlock == cur + 1
               toBlock == blockNumber
               st == [Idle EXCEPT !.kind = "block", !.pc = "getLogs",
                                  !.blockNumber = toBlock,
                                  !.fromBlock = fromBlock]
           IN  /\ lastProcessedBlock' = cur
               /\ IF toBlock < fromBlock
                  THEN /\ lastPass' = PassEnd(st, "skipped")
                       /\ UNCHANGED proc
                  ELSE /\ proc' = [proc EXCEPT ![p] = st]
                       /\ lastPass' = NoPass
    /\ started' = TRUE
    /\ UNCHANGED <<mode, minConf, faults, head, tokenCache, lastSeenTx,
                   delivered, sent, nSent, deferred, sendFailed>>

\* getLogs resolves: the loop runs to its first external call
GetLogsOk(p) ==
    /\ proc[p].pc = "getLogs"
    /\ LET logs == GetLogs(proc[p].fromBlock, proc[p].blockNumber)
       IN  Settle(p, LoopFrom([proc[p] EXCEPT !.logs = logs], 1,
                              lastSeenTx, tokenCache))
    /\ UNCHANGED <<mode, minConf, faults, head, tokenCache, lastSeenTx,
                   delivered, sent, nSent, deferred,
                   started, sendFailed>>

\* getLogs rejects: the outer catch ends the pass
GetLogsFail(p) ==
    /\ faults > 0
    /\ faults' = faults - 1
    /\ proc[p].pc = "getLogs"
    /\ AbortPass(p)
    /\ UNCHANGED <<mode, minConf, head, tokenCache, lastSeenTx,
                   delivered, sent, nSent, deferred,
                   started, sendFailed>>

\* provider.on(filter, log) up to its first external call
LogEvent(k) ==
    /\ mode = "subscribe"
    /\ k \in ChainIds
    /\ ChainLogs[k].blockNumber <= head
    /\ k \notin DOMAIN delivered
    /\ \A j \in 1..(k - 1) : j \in DOMAIN delivered
    /\ delivered' = Handed(delivered, k)
    /\ \E p \in Procs :
        /\ FreeSlot(p)
        /\ LET st == [Idle EXCEPT !.kind = "log", !.log = ChainLogs[k]]
           IN  IF minConf > 1
               THEN Settle(p, [st EXCEPT !.pc = "gate"])
               ELSE Settle(p, HandleLogEntry(st, ChainLogs[k], lastSeenTx,
                                             tokenCache))
    /\ UNCHANGED <<mode, minConf, faults, head, tokenCache, lastSeenTx,
                   sent, nSent, deferred,
                   started, sendFailed>>

\* the gate's provider.getBlockNumber() resolves with the chain head
GateOk(p) ==
    /\ proc[p].pc = "gate"
    /\ LET st == [proc[p] EXCEPT !.gate = "ok"]
           log == st.log
       IN  IF NotYetEligible(log, minConf, head)
           THEN /\ deferred' = deferred \cup {log.id}
                /\ IF st.kind = "block"
                   THEN \* continue
                        Settle(p, LoopFrom(
                            [st EXCEPT !.skipped = @ \cup {log.id}],
                            st.i + 1, lastSeenTx, tokenCache))
                   ELSE \* setTimeout(() => provider.getBlock(...)); return
                        Settle(p, [st EXCEPT !.pc = "return"])
           ELSE /\ UNCHANGED deferred
                /\ LET e == HandleLogEntry(st, log, lastSeenTx, tokenCache)
                   IN  IF e.pc = "return" /\ st.kind = "block"
                       THEN Settle(p, LoopFrom(st, st.i + 1, lastSeenTx,
                                               tokenCache))
                       ELSE Settle(p, e)
    /\ UNCHANGED <<mode, minConf, faults, head, tokenCache, lastSeenTx,
                   delivered, sent, nSent,
                   started, sendFailed>>

\* the gate's provider.getBlockNumber() rejects.  Block handler: the error
\* reaches the outer catch.  Log handler: catch {} and handleLog(log) runs.
GateFail(p) ==
    /\ faults > 0
    /\ faults' = faults - 1
    /\ proc[p].pc = "gate"
    /\ IF proc[p].kind = "block"
       THEN AbortPass(p)
       ELSE Settle(p, HandleLogEntry([proc[p] EXCEPT !.gate = "failed"],
                                     proc[p].log, lastSeenTx, tokenCache))
    /\ UNCHANGED <<mode, minConf, head, tokenCache, lastSeenTx,
                   delivered, sent, nSent, deferred,
                   started, sendFailed>>

\* pRetry(() => contract.symbol()) resolves
SymbolOk(p) ==
    /\ proc[p].pc = "symbol"
    /\ proc' = [proc EXCEPT ![p].pc = "decimals",
                            ![p].meta.symbol =
                                RealMeta(proc[p].log.address).symbol]
    /\ lastPass' = NoPass
    /\ UNCHANGED <<mode, minConf, faults, head, lastProcessedBlock,
                   tokenCache, lastSeenTx, delivered, sent, nSent, deferred,
                   started, sendFailed>>

\* pRetry(() => contract.symbol()) rejects after its retries: the catch in
\* handleLog takes the placeholder
SymbolFail(p) ==
    /\ faults > 0
    /\ faults' = faults - 1
    /\ proc[p].pc = "symbol"
    /\ proc' = [proc EXCEPT ![p].pc = "send", ![p].meta = PlaceholderMeta]
    /\ lastPass' = NoPass
    /\ UNCHANGED <<mode, minConf, head, lastProcessedBlock,
                   tokenCache, lastSeenTx, delivered, sent, nSent, deferred,
                   started, sendFailed>>

\* Date.now(): wall-clock time is observed through the chain height, a
\* clock that never runs backward and that may or may not have advanced
\* between two readings.
Now == head

\* mutant of CacheSet: the placeholder is stored in place of the metadata
CacheSet_StoresPlaceholder(cache, addr, meta) ==
    [a \in DOMAIN cache \cup {addr} |->
        IF a = addr THEN PlaceholderMeta ELSE cache[a]]

\* tokenCache.set(address, meta)
CacheSet(cache, addr, meta) ==
    [a \in DOMAIN cache \cup {addr} |->
        IF a = addr THEN meta ELSE cache[a]]

\* pRetry(() => contract.decimals()) resolves:
\* meta = { symbol, decimals: Number(decimals), fetchedAt: Date.now() };
\* tokenCache.set(address, meta)
DecimalsOk(p) ==
    /\ proc[p].pc = "decimals"
    /\ LET addr == proc[p].log.address
           meta == [symbol |-> proc[p].meta.symbol,
                    decimals |-> RealMeta(addr).decimals,
                    fetchedAt |-> Now]
       IN  /\ tokenCache' = CacheSet(tokenCache, addr, meta)
           /\ proc' = [proc EXCEPT ![p].pc = "send", ![p].meta = meta]
    /\ lastPass' = NoPass
    /\ UNCHANGED <<mode, minConf, faults, head, lastProcessedBlock,
                   lastSeenTx, delivered, sent, nSent, deferred,
                   started, sendFailed>>

\* pRetry(() => contract.decimals()) rejects after its retries
DecimalsFail(p) ==
    /\ faults > 0
    /\ faults' = faults - 1
    /\ proc[p].pc = "decimals"
    /\ proc' = [proc EXCEPT ![p].pc = "send", ![p].meta = PlaceholderMeta]
    /\ lastPass' = NoPass
    /\ UNCHANGED <<mode, minConf, head, lastProcessedBlock,
                   tokenCache, lastSeenTx, delivered, sent, nSent, deferred,
                   started, sendFailed>>

\* the notification handleLog builds for a log
Notification(st) ==
    [transactionHash |-> st.log.transactionHash,
     type |-> Classify(st.log.from, st.log.to),
     symbol |-> st.meta.symbol,
     decimals |-> st.meta.decimals,
     gate |-> st.gate,
     seq |-> nSent]

Notifications(id) == IF id \in DOMAIN sent THEN sent[id] ELSE <<>>

\* lastSeenTx after a dispatch of tx has resolved
SeenAfterSend(seen, tx) == DedupRecord(seen, tx)

\* bot.sendMessage resolves: record the transaction, return
SendOk(p) ==
    /\ proc[p].pc = "send"
    /\ LET id == proc[p].log.id
           seen == SeenAfterSend(lastSeenTx, proc[p].log.transactionHash)
       IN  /\ sent' = [k \in DOMAIN sent \cup {id} |->
                          IF k = id
                          THEN Append(Notifications(id),
                                      Notification(proc[p]))
                          ELSE sent[k]]
           /\ nSent' = nSent + 1
           /\ lastSeenTx' = seen
           /\ AfterHandleLog(p, seen, tokenCache)
    /\ UNCHANGED <<mode, minConf, faults, head, tokenCache, delivered,
                   deferred,
                   started, sendFailed>>

\* mutant of SeenAfterFailure: the transaction is recorded before the
\* dispatch is known to have succeeded
SeenAfterFailure_Records(seen, tx) == DedupRecord(seen, tx)

\* lastSeenTx after a dispatch has failed
SeenAfterFailure(seen, tx) == seen

\* mutant of AfterSendFailure: the rejection is not caught in handleLog
\* and reaches the caller's error boundary
AfterSendFailure_Raises(p, seen, cache) ==
    IF proc[p].kind = "block"
    THEN AbortPass(p)
    ELSE Settle(p, [proc[p] EXCEPT !.pc = "return"])

\* catch (err) { console.error("Error handling log:", err) }: handleLog
\* resolves and its caller goes on
AfterSendFailure(p, seen, cache) == AfterHandleLog(p, seen, cache)

\* bot.sendMessage rejects: catch (err) { console.error(...) }, return
SendFail(p) ==
    /\ faults > 0
    /\ faults' = faults - 1
    /\ proc[p].pc = "send"
    /\ lastSeenTx' = SeenAfterFailure(lastSeenTx,
                                      proc[p].log.transactionHash)
    /\ sendFailed' = sendFailed \cup {proc[p].log.id}
    /\ AfterSendFailure(p, lastSeenTx', tokenCache)
    /\ UNCHANGED <<mode, minConf, head, tokenCache, delivered, sent,
                   nSent, deferred, started>>

Step(p) ==
    \/ GetLogsOk(p)
    \/ GetLogsFail(p)
    \/ GateOk(p)
    \/ GateFail(p)
    \/ SymbolOk(p)
    \/ SymbolFail(p)
    \/ DecimalsOk(p)
    \/ DecimalsFail(p)
    \/ SendOk(p)
    \/ SendFail(p)

Next ==
    \/ MineBlock
    \/ BlockEvent(head)
    \/ \E k \in ChainIds : LogEvent(k)
    \/ \E p \in Procs : Step(p)

Spec == Init /\ [][Next]_vars

\* Scheduling: every pending external call settles, the chain keeps growing
\* up to MaxBlock, and the provider keeps emitting the events it has: the
\* block event of the current head, and the next log of the subscription.
Fairness ==
    /\ \A p \in Procs : WF_vars(Step(p))
    /\ WF_vars(MineBlock)
    /\ WF_vars(BlockEvent(head))
    /\ WF_vars(\E k \in ChainIds : LogEvent(k))

FairSpec == Spec /\ Fairness

(* --------------------- the deduplicator on its own -------------------- *)
(* handleLog called directly, one call after the other has returned, on a  *)
(* long stream of mints in distinct transactions, every external call      *)
(* succeeding.  Two logs of the stream can be handed to handleLog again:   *)
(* the first, and the last that the first eviction removes.                *)
ReplayLogs == {1, EvictCount}

AllIdle == \A p \in Procs : proc[p].pc = "idle"

InitDedup ==
    /\ mode = "subscribe"
    /\ minConf = 1
    /\ faults = 0
    /\ head = 1
    /\ lastProcessedBlock = 0
    /\ tokenCache = <<>>
    /\ lastSeenTx = <<>>
    /\ proc = [p \in Procs |-> Idle]
    /\ delivered = <<>>
    /\ sent = <<>>
    /\ nSent = 0
    /\ deferred = {}
    /\ lastPass = NoPass
    /\ started = FALSE
    /\ sendFailed = {}

\* handleLog(log) called on log n of the stream, up to its first await
CallHandleLog(n) ==
    /\ AllIdle
    /\ delivered' = Handed(delivered, n)
    /\ Settle(1, HandleLogEntry([Idle EXCEPT !.kind = "call"], BulkLog(n),
                                lastSeenTx, tokenCache))
    /\ UNCHANGED <<mode, minConf, faults, head, tokenCache, lastSeenTx,
                   sent, nSent, deferred,
                   started, sendFailed>>

\* the next log of the stream
HandleNext ==
    /\ Cardinality(DOMAIN delivered) < MaxTx
    /\ CallHandleLog(Cardinality(DOMAIN delivered) + 1)

\* a log handled before is handled again
HandleAgain(k) ==
    /\ k \in DOMAIN delivered
    /\ delivered[k] < MaxHandled
    /\ CallHandleLog(k)

NextDedup ==
    \/ HandleNext
    \/ \E k \in ReplayLogs : HandleAgain(k)
    \/ SymbolOk(1)
    \/ DecimalsOk(1)
    \/ SendOk(1)

SpecDedup == InitDedup /\ [][NextDedup]_vars

(* ------------------------------ claims -------------------------------- *)
\* number of notifications dispatched for the logs of transaction tx
RECURSIVE CountTx(_, _)
CountTx(ids, tx) ==
    IF ids = {} THEN 0
    ELSE LET id == CHOOSE x \in ids : TRUE
         IN  (IF sent[id][1].transactionHash = tx THEN Len(sent[id]) ELSE 0)
             + CountTx(ids \ {id}, tx)

SentForTx(tx) == CountTx(DOMAIN sent, tx)

\* C1 as stated: handling the same log twice, with any number of other logs
\* handled in between, never dispatches two notifications for it.
C1_NeverTwice ==
    \A id \in DOMAIN sent : Len(sent[id]) <= 1

\* C1 as amended: two notifications of one log are separated by at least
\* DedupCeiling + 1 - EvictCount (801) dispatches for other transactions; a
\* log handled again sooner is not notified again.
C1_NotTwiceWithinWindow ==
    \A id \in DOMAIN sent :
        \A j \in 1..(Len(sent[id]) - 1) :
            sent[id][j + 1].seq - sent[id][j].seq - 1
                >= DedupCeiling + 1 - EvictCount

\* a log was handled twice, the second time with fewer than 801 dispatches
\* since its notification, and was notified once
C1_Witness ==
    /\ AllIdle
    /\ \E id \in DOMAIN sent :
        /\ delivered[id] = 2
        /\ Len(sent[id]) = 1
        /\ nSent - sent[id][1].seq - 1 < DedupCeiling + 1 - EvictCount

Range(seq) == {seq[k] : k \in 1..Len(seq)}

\* C9: lastSeenTx never holds more than 1000 identifiers when handleLog is
\* suspended or has returned, and the insertion into a full set of 1000
\* leaves exactly its 800 latest identifiers followed by the new one (the
\* 200 earliest are gone).
C9_BoundAndEviction ==
    [][/\ Len(lastSeenTx') <= DedupCeiling
       /\ (Len(lastSeenTx) = DedupCeiling /\ lastSeenTx' # lastSeenTx)
            => /\ Len(lastSeenTx') = DedupCeiling + 1 - EvictCount
               /\ \A k \in 1..(DedupCeiling - EvictCount) :
                      lastSeenTx'[k] = lastSeenTx[EvictCount + k]
               /\ lastSeenTx'[Len(lastSeenTx')] \notin Range(lastSeenTx)
               /\ \A k \in 1..EvictCount :
                      lastSeenTx[k] \notin Range(lastSeenTx')]_vars

\* the 1001st distinct identifier has been inserted and 801 are left
C9_Witness ==
    /\ nSent = DedupCeiling + 1
    /\ Len(lastSeenTx) = DedupCeiling + 1 - EvictCount
    /\ lastSeenTx[1] = EvictCount + 1

\* a log the chain holds within the block range of the pass that just ended
InLastPass(k) ==
    /\ ChainLogs[k].blockNumber >= lastPass.fromBlock
    /\ ChainLogs[k].blockNumber <= lastPass.blockNumber

\* a well-formed transfer with exactly one zero endpoint: a mint or a burn
\* under every reading
Qualifies(k) ==
    /\ ChainLogs[k].wellFormed
    /\ (ChainLogs[k].from = ZERO) # (ChainLogs[k].to = ZERO)

\* C2: with CONFIRMATIONS <= 1 and no external call failing, once a
\* block-poll pass has completed, every Mint/Burn log of its range has
\* produced exactly one notification of its own.
C2_EachQualifyingLogOnce ==
    (lastPass.outcome = "completed" /\ minConf <= 1 /\ faults = MaxFaults)
        => \A k \in ChainIds :
              (InLastPass(k) /\ Qualifies(k))
                  => Len(Notifications(k)) = 1

\* the classification the claim C3 states
StatedClass(from, to) ==
    IF from = ZERO /\ to # ZERO THEN "Mint"
    ELSE IF to = ZERO /\ from # ZERO THEN "Burn"
    ELSE "Ignored"

\* C3 as stated: a notification is a Mint notification iff the sender is
\* zero and the recipient is not, a Burn notification iff the recipient is
\* zero and the sender is not, and nothing else is notified.
C3_StatedClassification ==
    \A k \in DOMAIN sent : \A j \in 1..Len(sent[k]) :
        /\ StatedClass(ChainLogs[k].from, ChainLogs[k].to) # "Ignored"
        /\ sent[k][j].type
              = StatedClass(ChainLogs[k].from, ChainLogs[k].to)

\* C3 as amended: a notification is a Mint notification iff the sender is
\* the zero address (whatever the recipient, the zero address included), a
\* Burn notification iff the recipient is zero and the sender is not, and a
\* transfer between two non-zero addresses or a malformed log is never
\* notified; and once a pass with CONFIRMATIONS <= 1 has completed with no
\* call failing, the transaction of every well-formed log of its range with
\* a zero sender or recipient has been notified.
C3_CodeClassification ==
    /\ \A k \in DOMAIN sent : \A j \in 1..Len(sent[k]) :
          /\ ChainLogs[k].wellFormed
          /\ sent[k][j].type \in {"Mint", "Burn"}
          /\ (sent[k][j].type = "Mint") <=> (ChainLogs[k].from = ZERO)
          /\ (sent[k][j].type = "Burn")
                <=> (ChainLogs[k].to = ZERO /\ ChainLogs[k].from # ZERO)
    /\ (lastPass.outcome = "completed" /\ minConf <= 1
            /\ faults = MaxFaults)
          => \A k \in ChainIds :
                (/\ InLastPass(k)
                 /\ ChainLogs[k].wellFormed
                 /\ (ChainLogs[k].from = ZERO \/ ChainLogs[k].to = ZERO))
                    => SentForTx(ChainLogs[k].transactionHash) >= 1

\* a mint, a burn and the transfer from zero to zero have been notified,
\* the last as a Mint
C3_Witness ==
    /\ \E k \in DOMAIN sent :
          /\ ChainLogs[k].from = ZERO /\ ChainLogs[k].to = ZERO
          /\ sent[k][1].type = "Mint"
    /\ \E k \in DOMAIN sent : sent[k][1].type = "Burn"
    /\ \E k \in DOMAIN sent :
          ChainLogs[k].to # ZERO /\ sent[k][1].type = "Mint"

\* C4: the cursor never moves backward, passes in flight together included.
C4_CursorNeverBackward ==
    [][lastProcessedBlock' >= lastProcessedBlock]_vars

\* C5: with CONFIRMATIONS > 1, a pass that ends leaves the cursor below the
\* block of every log it fetched and found not yet eligible.
C5_CursorBelowAwaitingLog ==
    (minConf > 1 /\ lastPass.outcome = "completed")
        => \A k \in lastPass.skipped :
              lastProcessedBlock < ChainLogs[k].blockNumber

\* C6: a Mint/Burn log a gate found not yet eligible is notified once the
\* head has reached its block + CONFIRMATIONS - 1, when no external call
\* fails from then on.
C6_DeferredEventuallyNotified ==
    \A k \in ChainIds :
        (/\ k \in deferred
         /\ Qualifies(k)
         /\ faults = 0
         /\ head >= ChainLogs[k].blockNumber + minConf - 1)
            ~> (SentForTx(ChainLogs[k].transactionHash) >= 1)

\* C7: no notification is dispatched for a log by the handler run whose
\* gate query (getBlockNumber) failed for it.
C7_NoDispatchAfterGateFailure ==
    \A k \in DOMAIN sent : \A j \in 1..Len(sent[k]) :
        sent[k][j].gate # "failed"

\* C8: at most one notification is dispatched per transaction identifier,
\* whatever handlers are in flight together.
C8_AtMostOncePerTransaction ==
    \A k \in DOMAIN sent :
        SentForTx(sent[k][1].transactionHash) <= 1

\* C10: every identifier in lastSeenTx belongs to a transaction for which a
\* notification was dispatched, and a step that dispatches nothing (a failed
\* sendMessage, a malformed or ignored log, any other step) leaves
\* lastSeenTx unchanged.
C10_SeenOnlyAfterDispatch ==
    [][/\ \A tx \in Range(lastSeenTx') : SentForTx(tx)' >= 1
       /\ (nSent' = nSent) => (lastSeenTx' = lastSeenTx)]_vars

\* a pass without gate has completed over the burn and the malformed log,
\* the dispatch for the burn failed, and neither transaction is recorded
C10_Witness ==
    /\ lastPass.outcome = "completed"
    /\ minConf = 1
    /\ InLastPass(3)
    /\ ~Has(lastSeenTx, ChainLogs[3].transactionHash)
    /\ ~Has(lastSeenTx, ChainLogs[4].transactionHash)
    /\ 3 \notin DOMAIN sent

\* the step hands a new-block notification that opens a pass to handler p
PassStarts(p) == proc[p].pc = "idle" /\ proc'[p].pc = "getLogs"

\* C11: the first new-block notification since startup, of height B, opens
\* a pass that fetches exactly the range [B, B]: the filter handed to
\* getLogs has fromBlock = toBlock = B, never block 0 or a block below B.
C11_FirstRunFetchesOnlyB ==
    [][(~started /\ started')
          => \E p \in Procs :
                /\ PassStarts(p)
                /\ proc'[p].fromBlock = head
                /\ proc'[p].blockNumber = head
                /\ lastProcessedBlock' = head - 1]_vars

\* the first notification arrived at height 3 and its pass is fetching
\* [3, 3]: nothing was notified, no call failed and no other pass runs, so
\* no pass ran before this one
C11_Witness ==
    /\ started
    /\ minConf = 1
    /\ faults = MaxFaults
    /\ nSent = 0
    /\ proc[1].pc = "getLogs"
    /\ proc[1].fromBlock = 3
    /\ proc[1].blockNumber = 3
    /\ \A p \in Procs \ {1} : proc[p].pc = "idle"

\* C12: when getLogs or the gate's head query has failed during a pass for
\* height B (and no other pass is in flight), the cursor is such that a
\* notification of any height B' >= B opens a range that starts at the
\* fromBlock of the failed pass, the pass of the first notification
\* included.
C12_FailedRangeRetried ==
    (lastPass.outcome = "aborted" /\ AllIdle)
        => \A b \in lastPass.blockNumber..MaxBlock :
              CursorAtEntry(lastProcessedBlock, b) + 1 = lastPass.fromBlock

\* the step settles a token-metadata call of handler p with a failure,
\* all retries exhausted
MetaFetchFails(p) ==
    /\ proc[p].pc \in {"symbol", "decimals"}
    /\ proc'[p] # proc[p]
    /\ faults' < faults

\* the step settles the dispatch of handler p with success
DispatchSucceeds(p) ==
    /\ proc[p].pc = "send"
    /\ proc'[p] # proc[p]
    /\ nSent' = nSent + 1

\* C13: when symbol() or decimals() has failed for a Mint/Burn log, the
\* handler goes on to sendMessage for that log with the metadata
\* {symbol "TOKEN", decimals 18}; the notification it dispatches carries
\* those values, and nothing is cached.
C13_PlaceholderOnMetaFailure ==
    [][\A p \in Procs :
          /\ MetaFetchFails(p)
                => /\ proc'[p].pc = "send"
                   /\ proc'[p].log = proc[p].log
                   /\ proc'[p].meta.symbol = "TOKEN"
                   /\ proc'[p].meta.decimals = PlaceholderDecimals
                   /\ tokenCache' = tokenCache
          /\ DispatchSucceeds(p)
                => LET n == sent'[proc[p].log.id]
                   IN  /\ n[Len(n)].symbol = proc[p].meta.symbol
                       /\ n[Len(n)].decimals = proc[p].meta.decimals
                       /\ n[Len(n)].transactionHash
                             = proc[p].log.transactionHash]_vars

\* a notification carrying the placeholder metadata has been dispatched
C13_Witness ==
    \E k \in DOMAIN sent :
        /\ sent[k][1].symbol = "TOKEN"
        /\ sent[k][1].decimals = PlaceholderDecimals
        /\ faults < MaxFaults
        /\ tokenCache = <<>>

\* a well-formed transfer with a zero sender or a zero recipient: a log
\* handleLog notifies
Notifiable(k) ==
    /\ ChainLogs[k].wellFormed
    /\ (ChainLogs[k].from = ZERO \/ ChainLogs[k].to = ZERO)

\* C14: a log whose topics do not parse is never notified; a pass ends in
\* the error boundary only when an external call has failed, never because
\* of a malformed log; and once a pass has completed, every notifiable log
\* that follows a malformed log in its batch, that passed the gate and
\* whose dispatch was not rejected, has had its transaction notified.
C14_MalformedLogSkipped ==
    /\ \A k \in DOMAIN sent : ChainLogs[k].wellFormed
    /\ \A p \in Procs :
          proc[p].pc \in {"symbol", "decimals", "send"}
              => proc[p].log.wellFormed
    /\ lastPass.outcome = "aborted" => faults < MaxFaults
    /\ lastPass.outcome = "completed"
          => \A k \in ChainIds, j \in ChainIds :
                (/\ InLastPass(k) /\ ~ChainLogs[k].wellFormed
                 /\ j > k /\ InLastPass(j) /\ Notifiable(j)
                 /\ j \notin lastPass.skipped
                 /\ j \notin sendFailed)
                    => SentForTx(ChainLogs[j].transactionHash) >= 1

\* a pass over blocks 2 and 3 has completed: the malformed log 4 was not
\* notified and log 6, which follows it in the batch, was
C14_Witness ==
    /\ lastPass.outcome = "completed"
    /\ lastPass.fromBlock = 2
    /\ lastPass.blockNumber = 3
    /\ 4 \notin DOMAIN sent
    /\ 6 \in DOMAIN sent

\* C15: the step that completes a pass for height B writes B to the
\* cursor; while no pass is in flight the cursor, once at a height B >= 1,
\* stays where it is; and a notification of height B' > B that arrives
\* when no pass is in flight opens a pass that fetches [B + 1, B'].
C15_CursorAtBThenNextRange ==
    [][/\ lastPass'.outcome = "completed"
            => lastProcessedBlock' = lastPass'.blockNumber
       /\ (AllIdle /\ AllIdle' /\ lastProcessedBlock >= 1)
            => lastProcessedBlock' = lastProcessedBlock
       /\ (AllIdle /\ lastProcessedBlock >= 1 /\ started' /\ ~AllIdle'
              /\ mode = "poll")
            => /\ head > lastProcessedBlock
               /\ \E p \in Procs :
                     /\ PassStarts(p)
                     /\ proc'[p].fromBlock = lastProcessedBlock + 1
                     /\ proc'[p].blockNumber = head
               /\ lastProcessedBlock' = lastProcessedBlock
       /\ (AllIdle /\ AllIdle' /\ lastProcessedBlock >= 1
              /\ head > lastProcessedBlock)
            => lastPass'.outcome # "skipped"]_vars

\* the pass for height 1 completed and notified its mint, and the
\* notification of height 3 has opened a pass over [2, 3]
C15_Witness ==
    /\ 1 \in DOMAIN sent
    /\ lastProcessedBlock = 1
    /\ proc[1].pc = "getLogs"
    /\ proc[1].fromBlock = 2
    /\ proc[1].blockNumber = 3
    /\ \A p \in Procs \ {1} : proc[p].pc = "idle"

\* C16: a new-block notification of a height B < lastProcessedBlock + 1 is
\* dropped: no handler is left awaiting getLogs or anything else for it,
\* nothing is dispatched, and the cursor, lastSeenTx and tokenCache are as
\* before.  For a cursor c >= 1 and every height B <= c, the height the
\* cursor stands at or a lower one, the entry of the handler keeps the
\* cursor and finds the range [c + 1, B] empty.
C16_StaleNotificationSkipped ==
    [][/\ (BlockEvent(head) /\ head < lastProcessedBlock + 1)
          => /\ proc' = proc
             /\ lastPass'.outcome = "skipped"
             /\ sent' = sent
             /\ nSent' = nSent
             /\ lastProcessedBlock' = lastProcessedBlock
             /\ lastSeenTx' = lastSeenTx
             /\ tokenCache' = tokenCache
       /\ \A c \in 1..MaxBlock, b \in 1..MaxBlock :
             b < c + 1 => /\ CursorAtEntry(c, b) = c
                          /\ b < CursorAtEntry(c, b) + 1]_vars

\* a notification of the height the cursor stands at has just been
\* dropped, after a pass that notified a mint and cached its token
C16_Witness ==
    /\ lastPass.outcome = "skipped"
    /\ lastPass.blockNumber < lastProcessedBlock + 1
    /\ lastSeenTx # <<>>
    /\ tokenCache # <<>>

\* the step settles the dispatch of handler p with a rejection
DispatchFails(p) ==
    /\ proc[p].pc = "send"
    /\ proc'[p] # proc[p]
    /\ faults' < faults

\* C17: a rejected sendMessage does not reach the error boundary of the
\* block handler: the pass goes on with the next log or completes; once it
\* has completed, every notifiable log that follows the failed one in the
\* batch, that passed the gate and whose own dispatch was not rejected, has
\* had its transaction notified; and after a rejected dispatch the block
\* handler still accepts notifications and opens a pass for every height
\* above the cursor.
C17_FailedDispatchDoesNotHalt ==
    [][/\ \A p \in Procs :
             DispatchFails(p)
                => /\ lastPass'.outcome # "aborted"
                   /\ proc'[p].pc = "idle"
                         => (proc[p].kind = "block"
                                => lastPass'.outcome = "completed")
       /\ lastPass'.outcome = "completed"
             => \A k \in sendFailed', j \in ChainIds :
                   (/\ InLastPass(k)' /\ j > k /\ InLastPass(j)'
                    /\ Notifiable(j)
                    /\ j \notin lastPass'.skipped
                    /\ j \notin sendFailed')
                       => SentForTx(ChainLogs[j].transactionHash)' >= 1
       /\ (sendFailed # {} /\ mode = "poll"
              /\ \E p \in Procs : proc[p].pc = "idle")
             => ENABLED BlockEvent(head)
       /\ (sendFailed # {} /\ BlockEvent(head)
              /\ lastProcessedBlock >= 1 /\ head > lastProcessedBlock)
             => \E p \in Procs :
                   /\ PassStarts(p)
                   /\ proc'[p].blockNumber = head]_vars

\* a pass over blocks 2 and 3 has completed although the dispatch for the
\* burn of block 2 was rejected: the mint of block 3 was notified
C17_Witness ==
    /\ lastPass.outcome = "completed"
    /\ lastPass.fromBlock = 2
    /\ lastPass.blockNumber = 3
    /\ 3 \in sendFailed
    /\ 3 \notin DOMAIN sent
    /\ 6 \in DOMAIN sent

\* a transfer between two non-zero addresses
Ordinary(log) == log.from # ZERO /\ log.to # ZERO

\* C18: handleLog on a transfer between two non-zero addresses returns
\* before any external call: no handler is ever awaiting symbol(),
\* decimals() or sendMessage for such a log, no notification exists for
\* it, its transaction is not put into lastSeenTx, and the delivery of
\* such a log by the subscription (CONFIRMATIONS <= 1) changes neither
\* lastSeenTx nor tokenCache nor the notifications and leaves no handler
\* in flight.
C18_IgnoredLogNoSideEffect ==
    [][/\ \A p \in Procs :
             proc'[p].pc \in {"symbol", "decimals", "send"}
                => ~Ordinary(proc'[p].log)
       /\ \A k \in ChainIds :
             Ordinary(ChainLogs[k])
                => /\ k \notin DOMAIN sent'
                   /\ (\A j \in ChainIds :
                          ChainLogs[j].transactionHash
                              = ChainLogs[k].transactionHash
                            => Ordinary(ChainLogs[j]))
                        => ~Has(lastSeenTx', ChainLogs[k].transactionHash)
                   /\ (LogEvent(k) /\ minConf <= 1)
                        => /\ lastSeenTx' = lastSeenTx
                           /\ tokenCache' = tokenCache
                           /\ sent' = sent
                           /\ nSent' = nSent
                           /\ proc' = proc]_vars

\* the ordinary transfer of block 3 has been handled, by the subscription
\* handler or by a completed pass, and left nothing behind
C18_Witness ==
    /\ 5 \notin DOMAIN sent
    /\ ~Has(lastSeenTx, ChainLogs[5].transactionHash)
    /\ AllIdle
    /\ minConf = 1
    /\ \/ 5 \in DOMAIN delivered
       \/ lastPass.outcome = "completed" /\ InLastPass(5)

\* C19 as stated: a pass that completes leaves the cursor at its height B
\* even when the dispatch for a log of its range was rejected, and the
\* transaction of that log is then not in lastSeenTx.
C19_FailedLogNotRecorded ==
    lastPass.outcome = "completed"
        => /\ lastProcessedBlock = lastPass.blockNumber
           /\ \A k \in sendFailed :
                 InLastPass(k)
                    => ~Has(lastSeenTx, ChainLogs[k].transactionHash)

\* C19 as amended: a pass that completes leaves the cursor at its height B
\* even when the dispatch for a log of its range was rejected; the
\* transaction of a log whose dispatch was rejected is in lastSeenTx only
\* if another dispatch for that transaction succeeded; and a pass opened
\* while the cursor is at or above the block of such a log fetches a range
\* that lies above that block.
C19_FailedLogLostUnlessSiblingSent ==
    [][/\ lastPass'.outcome = "completed"
             => lastProcessedBlock' = lastPass'.blockNumber
       /\ \A k \in sendFailed' :
             Has(lastSeenTx', ChainLogs[k].transactionHash)
                => SentForTx(ChainLogs[k].transactionHash)' >= 1
       /\ \A p \in Procs :
             PassStarts(p)
                => \A k \in sendFailed :
                      ChainLogs[k].blockNumber <= lastProcessedBlock'
                         => ChainLogs[k].blockNumber < proc'[p].fromBlock]_vars

\* the dispatch for the burn of block 2 was rejected, its pass completed
\* and moved the cursor to 3, the burn is not recorded, and the next pass
\* has been skipped or is yet to come
C19_Witness ==
    /\ lastPass.outcome = "completed"
    /\ lastPass.blockNumber = 3
    /\ lastProcessedBlock = 3
    /\ 3 \in sendFailed
    /\ InLastPass(3)
    /\ 3 \notin DOMAIN sent
    /\ ~Has(lastSeenTx, ChainLogs[3].transactionHash)

\* the symbol and decimals an entry of tokenCache holds
Cached(cache, a) == [symbol |-> cache[a].symbol, decimals |-> cache[a].decimals]

\* C20 as stated: tokenCache gets an entry for an address only in the step
\* in which decimals() succeeds for it, symbol() having succeeded before;
\* the entry holds what the contract returned, never the placeholder; an
\* entry once written is never changed or removed; a handler that finds
\* the entry goes to sendMessage without a metadata call, and one that
\* does not find it calls symbol().
C20_CacheWrittenOnceOnSuccess ==
    [][/\ \A a \in DOMAIN tokenCache' \ DOMAIN tokenCache :
             \E p \in Procs :
                /\ proc[p].pc = "decimals"
                /\ proc[p].log.address = a
                /\ proc[p].meta.symbol = RealMeta(a).symbol
                /\ faults' = faults
       /\ \A a \in DOMAIN tokenCache' : Cached(tokenCache', a) = RealMeta(a)
       /\ \A a \in DOMAIN tokenCache :
             /\ a \in DOMAIN tokenCache'
             /\ tokenCache'[a] = tokenCache[a]
       /\ \A p \in Procs : MetaFetchFails(p) => tokenCache' = tokenCache
       /\ \A p \in Procs :
             (proc'[p] # proc[p] /\ proc[p].pc \notin {"symbol", "decimals"})
                => /\ proc'[p].pc = "symbol"
                      => proc'[p].log.address \notin DOMAIN tokenCache
                   /\ proc'[p].pc = "send"
                      => /\ proc'[p].log.address \in DOMAIN tokenCache
                         /\ proc'[p].meta
                               = tokenCache[proc'[p].log.address]
                   /\ proc'[p].pc # "decimals"]_vars

\* C20 as amended: as stated, except that an entry may be written again by
\* a handler that missed the cache before the entry existed: the symbol and
\* decimals of an entry never change and no entry is removed, while its
\* fetchedAt stamp may move forward.
C20_CacheValuesStable ==
    [][/\ \A a \in DOMAIN tokenCache' \ DOMAIN tokenCache :
             \E p \in Procs :
                /\ proc[p].pc = "decimals"
                /\ proc[p].log.address = a
                /\ proc[p].meta.symbol = RealMeta(a).symbol
                /\ faults' = faults
       /\ \A a \in DOMAIN tokenCache' : Cached(tokenCache', a) = RealMeta(a)
       /\ \A a \in DOMAIN tokenCache :
             /\ a \in DOMAIN tokenCache'
             /\ Cached(tokenCache', a) = Cached(tokenCache, a)
             /\ tokenCache'[a].fetchedAt >= tokenCache[a].fetchedAt
             /\ tokenCache'[a] # tokenCache[a]
                   => \E p \in Procs :
                         /\ proc[p].pc = "decimals"
                         /\ proc[p].log.address = a
       /\ \A p \in Procs : MetaFetchFails(p) => tokenCache' = tokenCache
       /\ \A p \in Procs :
             (proc'[p] # proc[p] /\ proc[p].pc \notin {"symbol", "decimals"})
                => /\ proc'[p].pc = "symbol"
                      => proc'[p].log.address \notin DOMAIN tokenCache
                   /\ proc'[p].pc = "send"
                      => /\ proc'[p].log.address \in DOMAIN tokenCache
                         /\ proc'[p].meta
                               = tokenCache[proc'[p].log.address]
                   /\ proc'[p].pc # "decimals"]_vars

\* the fetch failed for one log and the placeholder was used, the fetch
\* was attempted again for a later log and cached, and a handler has since
\* taken the entry from the cache
C20_Witness ==
    /\ \E k \in DOMAIN sent : sent[k][1].symbol = "TOKEN"
    /\ \E a \in DOMAIN tokenCache : Cached(tokenCache, a) = RealMeta(a)
    /\ \E k \in DOMAIN sent :
          /\ sent[k][1].symbol = RealMeta(ChainLogs[k].address).symbol
          /\ \E j \in DOMAIN sent :
                j < k /\ sent[j][1].symbol
                            = RealMeta(ChainLogs[j].address).symbol

=============================================================================
